---- MODULE Spec2Model ----
(***************************************************************************)
(* Filter categories service and filters manager of AdGuard for Safari     *)
(* (ElectronMainApp/src/main/app/filters/filters-categories.js).           *)
(*                                                                         *)
(* The catalog (subscriptions), the filters state store (filters-state),   *)
(* the tag service, the notifier and the rules loader (filters-update)     *)
(* are collaborators of the two modules; they are modelled by the          *)
(* interface the two modules use.                                          *)
(***************************************************************************)
EXTENDS Integers, Sequences, FiniteSets, TLC

\* Longest id list a caller passes to addAndEnableFilters.
MaxBatchLen == 2
\* Longest id list a caller passes to disableFilters.
MaxDisableLen == 3

\* Filter ids of the catalog, in catalog order.  Filter 3 is the custom
\* filter: the catalog holds it only once updateCustomFilter registered it,
\* so until then 3 is the id of no filter.
FilterIds == {1, 2, 3}
CatalogOrder == <<1, 2, 3>>
\* Groups of the catalog, in catalog order; 3 is an id of no group.
GroupIds == {1, 2}
GroupOrder == <<1, 2>>
InputGroupIds == GroupIds \cup {3}
\* addAndEnableFilters batches that may wait for the loader at once.
Slots == {1, 2}
\* updateCustomFilter calls that may wait for their callback at once.
MaxCustomLoads == 1
\* The url of the custom filter (filter 3); "" is the missing url.
CustomUrl == "https://example.org/custom.txt"
CustomFilterId == 3

FILTER_GROUP_ENABLE_DISABLE == "FILTER_GROUP_ENABLE_DISABLE"
FILTER_ENABLE_DISABLE == "FILTER_ENABLE_DISABLE"
FILTER_ADD_REMOVE == "FILTER_ADD_REMOVE"

VARIABLES
    cfg,               \* what the callers do: list lengths, concurrent batches, history
    catalog,           \* static fields of the filters: groupId, tags, languages, customUrl
    env,               \* locale-suitable ids, navigator, SAFARI_FILTER_ID
    filters,           \* in-memory flags of the catalog's filter objects
    groups,            \* in-memory group.enabled: "undefined", "true", "false"
    filtersStateInfo,  \* filtersState.getFiltersState()
    groupsStateInfo,   \* filtersState.getGroupState()
    batches,           \* per running addAndEnableFilters call: its filterIds queue
    loads,             \* loadFilterRules calls whose callback has not fired
    customLoads,       \* updateCustomFilter calls whose callback has not fired
    seeded,            \* history: groups enableFiltersGroup has been called for
    trace              \* what the last handler did: events, loader calls, result

vars == <<cfg, catalog, env, filters, groups, filtersStateInfo, groupsStateInfo,
          batches, loads, customLoads, seeded, trace>>

staticVars == <<cfg, catalog, env>>

----------------------------------------------------------------------------
\* Sequences and small helpers

Range(s) == {s[i] : i \in 1..Len(s)}

SeqsUpTo(S, n) == UNION {[1..k -> S] : k \in 0..n}

Contains(s, x) == \E i \in 1..Len(s) : s[i] = x

\* collections.removeDuplicates: keeps the first occurrence of every element
RECURSIVE removeDuplicates(_)
removeDuplicates(arr) ==
    IF Len(arr) <= 1 THEN arr
    ELSE LET init == removeDuplicates(SubSeq(arr, 1, Len(arr) - 1))
             last == arr[Len(arr)]
         IN IF Contains(init, last) THEN init ELSE Append(init, last)

NoStateInfo == [has |-> FALSE, enabled |-> FALSE, installed |-> FALSE, loaded |-> FALSE]
NoGroupInfo == [has |-> FALSE, enabled |-> FALSE]

\* The working state of a handler: the objects it reads and writes, and
\* what it has done so far (events emitted, loader and add calls made).
Cur == [f |-> filters, g |-> groups, fs |-> filtersStateInfo, gs |-> groupsStateInfo,
        ev |-> <<>>, ld |-> <<>>, add |-> <<>>]

Event(kind, id) == [kind |-> kind, id |-> id]

\* subscriptions.getFilter(id) is defined
hasFilter(S, id) == id \in FilterIds /\ S.f[id].present
\* subscriptions.getGroup(id) is defined
hasGroup(id) == id \in GroupIds

\* listeners.notifyListeners: appends the event; the state store's listener
\* persists the flags of the object the event carries.
notifyListeners(S, kind, id) ==
    LET S1 == [S EXCEPT !.ev = Append(@, Event(kind, id))]
    IN IF kind = FILTER_GROUP_ENABLE_DISABLE
       THEN [S1 EXCEPT !.gs[id] = [has |-> TRUE, enabled |-> (S.g[id] = "true")]]
       ELSE [S1 EXCEPT !.fs[id] = [has |-> TRUE,
                                   enabled |-> S.f[id].enabled,
                                   installed |-> S.f[id].installed,
                                   loaded |-> S.f[id].loaded]]

\* subscriptions.groupHasEnabledStatus
groupHasEnabledStatus(S, groupId) == S.g[groupId] # "undefined"

----------------------------------------------------------------------------
\* Filters manager: groups and filters

\* enableGroup without the already-enabled test
enableGroupNoCheck(S, groupId) ==
    IF ~hasGroup(groupId) THEN S
    ELSE notifyListeners([S EXCEPT !.g[groupId] = "true"],
                         FILTER_GROUP_ENABLE_DISABLE, groupId)

enableGroup(S, groupId) ==
    IF ~hasGroup(groupId) \/ S.g[groupId] = "true" THEN S
    ELSE notifyListeners([S EXCEPT !.g[groupId] = "true"],
                         FILTER_GROUP_ENABLE_DISABLE, groupId)

\* disableGroup, were it to act on every group not yet disabled
disableGroupUnlessDisabled(S, groupId) ==
    IF ~hasGroup(groupId) \/ S.g[groupId] = "false" THEN S
    ELSE notifyListeners([S EXCEPT !.g[groupId] = "false"],
                         FILTER_GROUP_ENABLE_DISABLE, groupId)

disableGroup(S, groupId) ==
    IF ~hasGroup(groupId) \/ S.g[groupId] # "true" THEN S
    ELSE notifyListeners([S EXCEPT !.g[groupId] = "false"],
                         FILTER_GROUP_ENABLE_DISABLE, groupId)

isGroupEnabled(S, groupId) == hasGroup(groupId) /\ S.g[groupId] = "true"

isFilterEnabled(S, filterId) ==
    /\ hasFilter(S, filterId)
    /\ S.fs[filterId].has
    /\ S.fs[filterId].enabled

\* enableFilter without the already-enabled test
enableFilterNoCheck(S, filterId) ==
    LET S1 == [S EXCEPT !.f[filterId].enabled = TRUE]
        groupId == catalog[filterId].groupId
        S2 == IF ~groupHasEnabledStatus(S1, groupId)
              THEN enableGroup(S1, groupId)
              ELSE S1
    IN notifyListeners(S2, FILTER_ENABLE_DISABLE, filterId)

\* enableFilter, were the group enabled whatever its status
enableFilterWithGroup(S, filterId) ==
    IF isFilterEnabled(S, filterId) THEN S
    ELSE LET S1 == [S EXCEPT !.f[filterId].enabled = TRUE]
         IN notifyListeners(enableGroup(S1, catalog[filterId].groupId),
                            FILTER_ENABLE_DISABLE, filterId)

enableFilter(S, filterId) ==
    IF isFilterEnabled(S, filterId) THEN S
    ELSE LET S1 == [S EXCEPT !.f[filterId].enabled = TRUE]
             groupId == catalog[filterId].groupId
             S2 == IF ~groupHasEnabledStatus(S1, groupId)
                   THEN enableGroup(S1, groupId)
                   ELSE S1
         IN notifyListeners(S2, FILTER_ENABLE_DISABLE, filterId)

----------------------------------------------------------------------------
\* Filters manager: the load-then-enable pipeline.  A run of loadNextFilter
\* returns the working state (S.ld holds the ids it handed to the loader),
\* the filterIds still queued and whether getFilterById threw.

RECURSIVE loadNextFilter(_, _)

\* the callback, were it to go on to the next filter only after a success
loadCallbackStopOnFailure(S, filterId, success, q) ==
    IF success THEN loadNextFilter(enableFilter(S, filterId), q)
    ELSE [s |-> S, q |-> <<>>, threw |-> FALSE]

\* the callback addAndEnableFilters passes to addAntiBannerFilter
loadCallback(S, filterId, success, q) ==
    loadNextFilter(IF success THEN enableFilter(S, filterId) ELSE S, q)

onFilterLoaded(S, filterId, success, q) ==
    LET S1 == IF success
              THEN notifyListeners([S EXCEPT !.f[filterId].installed = TRUE],
                                   FILTER_ADD_REMOVE, filterId)
              ELSE S
    IN loadCallback(S1, filterId, success, q)

\* the load, were the next filter started without waiting for the callback
loadFilterRulesNoWait(S, filterId, q) ==
    loadNextFilter([S EXCEPT !.ld = Append(@, filterId)], q)

\* filtersUpdate.loadFilterRules(filter, false, onFilterLoaded): the call
\* returns, and the callback fires later (LoaderCallback)
loadFilterRules(S, filterId, q) ==
    [s |-> [S EXCEPT !.ld = Append(@, filterId)], q |-> q, threw |-> FALSE]

\* addAntiBannerFilter, were a missing filter skipped instead of thrown on
addAntiBannerFilterSkipMissing(S, filterId, q) ==
    LET S1 == [S EXCEPT !.add = Append(@, filterId)]
    IN IF ~hasFilter(S, filterId)
       THEN loadNextFilter(S1, q)
       ELSE IF S.f[filterId].installed
       THEN loadCallback(S1, filterId, TRUE, q)
       ELSE IF S.f[filterId].loaded
       THEN onFilterLoaded(S1, filterId, TRUE, q)
       ELSE loadFilterRules(S1, filterId, q)

addAntiBannerFilter(S, filterId, q) ==
    LET S1 == [S EXCEPT !.add = Append(@, filterId)]
    IN IF ~hasFilter(S, filterId)
       THEN [s |-> S1, q |-> <<>>, threw |-> TRUE]      \* getFilterById throws
       ELSE IF S.f[filterId].installed
       THEN loadCallback(S1, filterId, TRUE, q)
       ELSE IF S.f[filterId].loaded
       THEN onFilterLoaded(S1, filterId, TRUE, q)
       ELSE loadFilterRules(S1, filterId, q)

loadNextFilter(S, q) ==
    IF Len(q) = 0
    THEN [s |-> S, q |-> <<>>, threw |-> FALSE]
    ELSE addAntiBannerFilter(S, Head(q), Tail(q))

\* addAndEnableFilters, were the duplicates left in
addAndEnableFiltersNoDedup(S, filterIds) ==
    IF Len(filterIds) = 0
    THEN [s |-> S, q |-> <<>>, threw |-> FALSE]
    ELSE loadNextFilter(S, filterIds)

addAndEnableFilters(S, filterIds) ==
    IF Len(filterIds) = 0
    THEN [s |-> S, q |-> <<>>, threw |-> FALSE]
    ELSE loadNextFilter(S, removeDuplicates(filterIds))

----------------------------------------------------------------------------
\* Filter categories service

\* subscriptions.getFilters(): the catalog's filters, in catalog order
subscriptionsGetFilters(S) == SelectSeq(CatalogOrder, LAMBDA id : S.f[id].present)

\* the listing without the removed test
categoriesGetFiltersAll(S) == subscriptionsGetFilters(S)

categoriesGetFilters(S) ==
    SelectSeq(subscriptionsGetFilters(S), LAMBDA id : ~S.f[id].removed)

selectFiltersByGroupId(groupId, fs) ==
    SelectSeq(fs, LAMBDA id : catalog[id].groupId = groupId)

getFiltersMetadata(S) ==
    [filters |-> categoriesGetFilters(S),
     categories |-> [g \in GroupIds |->
                        selectFiltersByGroupId(g, categoriesGetFilters(S))]]

\* navigator.userAgent matches /iPhone|iPad|iPod/i
isMobileDevice == env.navigator = "mobile"

checkMobile(filterId) ==
    IF ~catalog[filterId].mobile THEN TRUE
    ELSE IF env.navigator # "none" THEN catalog[filterId].mobile /\ isMobileDevice
    ELSE FALSE

\* the predicate with the recommended test ahead of the Safari filter test
isOfferedFilterTagFirst(filterId, langSuitableFilters, safariFilterId) ==
    IF ~catalog[filterId].recommended THEN FALSE
    ELSE IF safariFilterId = filterId THEN TRUE
    ELSE IF catalog[filterId].languages
         THEN IF filterId \in langSuitableFilters
              THEN checkMobile(filterId)
              ELSE FALSE
    ELSE checkMobile(filterId)

\* the predicate without the recommended test
isOfferedFilterNoTag(filterId, langSuitableFilters, safariFilterId) ==
    IF safariFilterId = filterId THEN TRUE
    ELSE IF catalog[filterId].languages
         THEN IF filterId \in langSuitableFilters
              THEN checkMobile(filterId)
              ELSE FALSE
    ELSE checkMobile(filterId)

isOfferedFilter(filterId, langSuitableFilters, safariFilterId) ==
    IF safariFilterId = filterId THEN TRUE
    ELSE IF ~catalog[filterId].recommended THEN FALSE
    ELSE IF catalog[filterId].languages
         THEN IF filterId \in langSuitableFilters
              THEN checkMobile(filterId)
              ELSE FALSE
    ELSE checkMobile(filterId)

getRecommendedFilterIdsByGroupId(S, groupId) ==
    IF groupId \in GroupIds
    THEN SelectSeq(getFiltersMetadata(S).categories[groupId],
                   LAMBDA id : isOfferedFilter(id, env.langSuitable, env.safariFilterId))
    ELSE <<>>

----------------------------------------------------------------------------
\* Filters manager: the other operations

\* the loop, were it to skip a filter that is not enabled and go on
RECURSIVE disableLoopSkip(_, _)
disableLoopSkip(S, q) ==
    IF Len(q) = 0 THEN S
    ELSE IF ~isFilterEnabled(S, Head(q)) THEN disableLoopSkip(S, Tail(q))
    ELSE disableLoopSkip(notifyListeners([S EXCEPT !.f[Head(q)].enabled = FALSE],
                                         FILTER_ENABLE_DISABLE, Head(q)),
                         Tail(q))

\* the loop of disableFilters over the deduplicated ids
RECURSIVE disableLoop(_, _)
disableLoop(S, q) ==
    IF Len(q) = 0 THEN S
    ELSE IF ~isFilterEnabled(S, Head(q)) THEN S
    ELSE disableLoop(notifyListeners([S EXCEPT !.f[Head(q)].enabled = FALSE],
                                     FILTER_ENABLE_DISABLE, Head(q)),
                     Tail(q))

disableFilters(S, filterIds) == disableLoop(S, removeDuplicates(filterIds))

\* removeFilter without the customUrl test
removeFilterAny(S, filterId) ==
    IF ~hasFilter(S, filterId) \/ S.f[filterId].removed THEN S
    ELSE LET S1 == [S EXCEPT !.f[filterId].enabled = FALSE,
                             !.f[filterId].installed = FALSE,
                             !.f[filterId].removed = TRUE]
         IN notifyListeners(notifyListeners(S1, FILTER_ENABLE_DISABLE, filterId),
                            FILTER_ADD_REMOVE, filterId)

\* removeFilter, were installed left as it is
removeFilterKeepInstalled(S, filterId) ==
    IF ~hasFilter(S, filterId) \/ S.f[filterId].removed THEN S
    ELSE IF ~catalog[filterId].customUrl THEN S
    ELSE LET S1 == [S EXCEPT !.f[filterId].enabled = FALSE,
                             !.f[filterId].removed = TRUE]
         IN notifyListeners(notifyListeners(S1, FILTER_ENABLE_DISABLE, filterId),
                            FILTER_ADD_REMOVE, filterId)

removeFilter(S, filterId) ==
    IF ~hasFilter(S, filterId) \/ S.f[filterId].removed THEN S
    ELSE IF ~catalog[filterId].customUrl THEN S
    ELSE LET S1 == [S EXCEPT !.f[filterId].enabled = FALSE,
                             !.f[filterId].installed = FALSE,
                             !.f[filterId].removed = TRUE]
         IN notifyListeners(notifyListeners(S1, FILTER_ENABLE_DISABLE, filterId),
                            FILTER_ADD_REMOVE, filterId)

\* enableFiltersGroup, were it to seed whenever the group is not enabled
enableFiltersGroupReseed(S, groupId) ==
    LET r == IF hasGroup(groupId) /\ S.g[groupId] # "true"
             THEN addAndEnableFilters(S, getRecommendedFilterIdsByGroupId(S, groupId))
             ELSE [s |-> S, q |-> <<>>, threw |-> FALSE]
    IN IF r.threw THEN r
       ELSE [r EXCEPT !.s = enableGroup(r.s, groupId)]

\* enableFiltersGroup, were the group left alone while a seeded load is out
enableFiltersGroupDeferred(S, groupId) ==
    LET r == IF hasGroup(groupId) /\ S.g[groupId] = "undefined"
             THEN addAndEnableFilters(S, getRecommendedFilterIdsByGroupId(S, groupId))
             ELSE [s |-> S, q |-> <<>>, threw |-> FALSE]
    IN IF r.threw \/ r.s.ld # <<>> THEN r
       ELSE [r EXCEPT !.s = enableGroup(r.s, groupId)]

enableFiltersGroup(S, groupId) ==
    LET r == IF hasGroup(groupId) /\ S.g[groupId] = "undefined"
             THEN addAndEnableFilters(S, getRecommendedFilterIdsByGroupId(S, groupId))
             ELSE [s |-> S, q |-> <<>>, threw |-> FALSE]
    IN IF r.threw THEN r
       ELSE [r EXCEPT !.s = enableGroup(r.s, groupId)]

\* manager getFilters: the list it returns
managerGetFiltersResult(S) == subscriptionsGetFilters(S)

\* manager getFilters: refreshes the flags from the state store
managerGetFilters(S) ==
    [S EXCEPT !.f = [id \in FilterIds |->
        IF S.f[id].present /\ S.fs[id].has
        THEN [S.f[id] EXCEPT !.enabled = S.fs[id].enabled,
                             !.installed = S.fs[id].installed,
                             !.loaded = S.fs[id].loaded]
        ELSE S.f[id]]]

getGroups(S) ==
    [S EXCEPT !.g = [g \in GroupIds |->
        IF S.gs[g].has
        THEN (IF S.gs[g].enabled THEN "true" ELSE "false")
        ELSE S.g[g]]]

----------------------------------------------------------------------------
\* The state machine

\* The record of one addAndEnableFilters batch, kept by the specifications
\* with "run" in cfg.history: the number of distinct ids it was called with,
\* the ids it has passed to addAntiBannerFilter and to the loader so far, in
\* order, the ids whose load succeeded (ok), the ids it found installed or
\* loaded (had), whether it is over and whether getFilterById threw.  The
\* record of a batch that is over is dropped by the next handler.
NoRun == [on |-> FALSE, done |-> FALSE, threw |-> FALSE, n |-> 0,
          visited |-> <<>>, loaded |-> <<>>, ok |-> {}, had |-> {}]

RunInProgress == trace.run.on /\ ~trace.run.done

Had(S) == {id \in Range(S.add) :
              filters[id].present /\ (filters[id].installed \/ filters[id].loaded)}

RunOf(op, arg, S, out) ==
    IF "run" \notin cfg.history THEN NoRun
    ELSE IF op = "addAndEnableFilters" /\ ~RunInProgress /\ arg > 0
    THEN [on |-> TRUE, done |-> S.ld = <<>>, threw |-> out = "threw",
          n |-> arg, visited |-> S.add, loaded |-> S.ld, ok |-> {}, had |-> Had(S)]
    ELSE IF op = "loaderCallback" /\ RunInProgress
    THEN [trace.run EXCEPT !.done = S.ld = <<>>,
                           !.threw = out = "threw",
                           !.visited = @ \o S.add,
                           !.loaded = @ \o S.ld,
                           !.ok = IF out = "success" THEN @ \cup {arg} ELSE @,
                           !.had = @ \cup Had(S)]
    ELSE IF RunInProgress THEN trace.run
    ELSE NoRun

\* The last handler's loader calls and outcome; for the operations of
\* cfg.history also which operation it was, its argument (an id; for a list
\* of ids, the number of distinct ids in it), whether the handler before it
\* was the same call, and its events and add calls.
Trace(op, arg, S, out) ==
    [op |-> IF op \in cfg.history THEN op ELSE "",
     arg |-> IF op \in cfg.history THEN arg ELSE 0,
     rep |-> op \in cfg.history /\ trace.op = op /\ trace.arg = arg,
     ev |-> IF op \in cfg.history THEN S.ev ELSE <<>>,
     ld |-> S.ld,
     add |-> IF op \in cfg.history THEN S.add ELSE <<>>,
     out |-> out, ret |-> <<>>,
     run |-> RunOf(op, arg, S, out)]

Commit(S) ==
    /\ filters' = S.f
    /\ groups' = S.g
    /\ filtersStateInfo' = S.fs
    /\ groupsStateInfo' = S.gs

\* a slot is idle when none of its loads is waiting for the loader
Idle(b) == \A l \in loads : l.b # b
HasIdleSlot == \E b \in cfg.slots : Idle(b)
FreeSlot == CHOOSE b \in cfg.slots : Idle(b) /\ \A c \in cfg.slots : Idle(c) => b <= c

Issued(b, S) == {[b |-> b, id |-> S.ld[i]] : i \in 1..Len(S.ld)}

CatalogOfSpec ==
    [id \in FilterIds |->
        [groupId |-> IF id = CustomFilterId THEN 2 ELSE 1,
         recommended |-> id # 2,
         mobile |-> FALSE,
         languages |-> FALSE,
         customUrl |-> id = CustomFilterId]]

EnvOfSpec == [langSuitable |-> {}, navigator |-> "none", safariFilterId |-> 2]

InitDynamic ==
    /\ filters = [id \in FilterIds |->
                    [present |-> id # CustomFilterId, enabled |-> FALSE,
                     installed |-> FALSE, loaded |-> FALSE, removed |-> FALSE]]
    /\ groups = [g \in GroupIds |-> "undefined"]
    /\ filtersStateInfo = [id \in FilterIds |-> NoStateInfo]
    /\ groupsStateInfo = [g \in GroupIds |-> NoGroupInfo]
    /\ batches = [b \in Slots |-> <<>>]
    /\ loads = {}
    /\ customLoads = 0
    /\ seeded = {}
    /\ trace = [op |-> "", arg |-> 0, rep |-> FALSE, ev |-> <<>>, ld |-> <<>>,
                add |-> <<>>, out |-> "returned", ret |-> <<>>, run |-> NoRun]

Init ==
    /\ cfg = [addLen |-> MaxBatchLen, disLen |-> 1, slots |-> {1}, history |-> {}]
    /\ catalog = CatalogOfSpec
    /\ env = EnvOfSpec
    /\ InitDynamic

\* A call that leaves a load waiting takes a free slot for its queue.
StartBatch(r) ==
    IF r.s.ld = <<>>
    THEN UNCHANGED <<batches, loads>>
    ELSE /\ HasIdleSlot
         /\ batches' = [batches EXCEPT ![FreeSlot] = r.q]
         /\ loads' = loads \cup Issued(FreeSlot, r.s)

AddAndEnableFilters(filterIds) ==
    /\ LET r == addAndEnableFilters(Cur, filterIds)
       IN /\ Commit(r.s)
          /\ StartBatch(r)
          /\ trace' = Trace("addAndEnableFilters", Len(removeDuplicates(filterIds)), r.s,
                            IF r.threw THEN "threw" ELSE "returned")
    /\ UNCHANGED <<staticVars, customLoads, seeded>>

\* the loader calls onFilterLoaded(success); on success it has marked the
\* filter's body as loaded
LoaderCallback(l, success) ==
    /\ l \in loads
    /\ LET S0 == [Cur EXCEPT !.f[l.id].loaded = @ \/ success]
           r == onFilterLoaded(S0, l.id, success, batches[l.b])
       IN /\ Commit(r.s)
          /\ batches' = [batches EXCEPT ![l.b] = r.q]
          /\ loads' = (loads \ {l}) \cup Issued(l.b, r.s)
          /\ trace' = Trace("loaderCallback", l.id, r.s,
                            IF r.threw THEN "threw"
                            ELSE IF success THEN "success" ELSE "failure")
    /\ UNCHANGED <<staticVars, customLoads, seeded>>

DisableFilters(filterIds) ==
    /\ LET S == disableFilters(Cur, filterIds)
       IN /\ Commit(S)
          /\ trace' = Trace("disableFilters", Len(removeDuplicates(filterIds)), S, "returned")
    /\ UNCHANGED <<staticVars, batches, loads, customLoads, seeded>>

RemoveFilter(filterId) ==
    /\ LET S == removeFilter(Cur, filterId)
       IN /\ Commit(S)
          /\ trace' = Trace("removeFilter", filterId, S, "returned")
    /\ UNCHANGED <<staticVars, batches, loads, customLoads, seeded>>

EnableGroup(groupId) ==
    /\ LET S == enableGroup(Cur, groupId)
       IN /\ Commit(S)
          /\ trace' = Trace("enableGroup", groupId, S, "returned")
    /\ UNCHANGED <<staticVars, batches, loads, customLoads, seeded>>

DisableGroup(groupId) ==
    /\ LET S == disableGroup(Cur, groupId)
       IN /\ Commit(S)
          /\ trace' = Trace("disableGroup", groupId, S, "returned")
    /\ UNCHANGED <<staticVars, batches, loads, customLoads, seeded>>

EnableFiltersGroup(groupId) ==
    /\ LET r == enableFiltersGroup(Cur, groupId)
       IN /\ Commit(r.s)
          /\ StartBatch(r)
          /\ trace' = Trace("enableFiltersGroup", groupId, r.s,
                            IF r.threw THEN "threw" ELSE "returned")
    /\ seeded' = IF "enableFiltersGroup" \in cfg.history
                  THEN seeded \cup ({groupId} \cap GroupIds)
                  ELSE seeded
    /\ UNCHANGED <<staticVars, customLoads>>

\* loadCustomFilter, were the url not tested
LoadCustomFilterAnyUrl(url) ==
    /\ customLoads < MaxCustomLoads
    /\ customLoads' = customLoads + 1
    /\ trace' = Trace("loadCustomFilter", 0, Cur, "returned")
    /\ UNCHANGED <<staticVars, filters, groups, filtersStateInfo, groupsStateInfo,
                   batches, loads, seeded>>

\* loadCustomFilter(url, successCallback, errorCallback): trace.out is
\* "error" when errorCallback was called, "success" when successCallback was
LoadCustomFilter(url) ==
    /\ IF url = ""
       THEN /\ trace' = Trace("loadCustomFilter", 0, Cur, "error")
            /\ UNCHANGED customLoads
       ELSE /\ customLoads < MaxCustomLoads
            /\ customLoads' = customLoads + 1
            /\ trace' = Trace("loadCustomFilter", 0, Cur, "returned")
    /\ UNCHANGED <<staticVars, filters, groups, filtersStateInfo, groupsStateInfo,
                   batches, loads, seeded>>

\* the callback, were the removed flag left as it is
CustomFilterCallbackKeepRemoved(filterId) ==
    /\ customLoads > 0
    /\ customLoads' = customLoads - 1
    /\ IF filterId # 0
       THEN /\ filters' = [filters EXCEPT ![filterId].present = TRUE]
            /\ trace' = Trace("customFilterCallback", filterId, Cur, "success")
       ELSE /\ UNCHANGED filters
            /\ trace' = Trace("customFilterCallback", filterId, Cur, "error")
    /\ UNCHANGED <<staticVars, groups, filtersStateInfo, groupsStateInfo,
                   batches, loads, seeded>>

\* subscriptions.updateCustomFilter calls back with the id of the filter it
\* registered in the catalog, or with nothing
CustomFilterCallback(filterId) ==
    /\ customLoads > 0
    /\ customLoads' = customLoads - 1
    /\ IF filterId # 0
       THEN /\ filters' = [filters EXCEPT ![filterId].present = TRUE,
                                          ![filterId].removed = FALSE]
            /\ trace' = Trace("customFilterCallback", filterId, Cur, "success")
       ELSE /\ UNCHANGED filters
            /\ trace' = Trace("customFilterCallback", filterId, Cur, "error")
    /\ UNCHANGED <<staticVars, groups, filtersStateInfo, groupsStateInfo,
                   batches, loads, seeded>>

GetFilters ==
    /\ LET S == managerGetFilters(Cur)
       IN /\ Commit(S)
          /\ trace' = Trace("getFilters", 0, S, "returned")
    /\ UNCHANGED <<staticVars, batches, loads, customLoads, seeded>>

GetGroups ==
    /\ LET S == getGroups(Cur)
       IN /\ Commit(S)
          /\ trace' = Trace("getGroups", 0, S, "returned")
    /\ UNCHANGED <<staticVars, batches, loads, customLoads, seeded>>

Next ==
    \/ \E ids \in SeqsUpTo(FilterIds, cfg.addLen) : AddAndEnableFilters(ids)
    \/ \E l \in loads, success \in BOOLEAN : LoaderCallback(l, success)
    \/ \E ids \in SeqsUpTo(FilterIds, cfg.disLen) : DisableFilters(ids)
    \/ \E id \in FilterIds : RemoveFilter(id)
    \/ \E g \in InputGroupIds : EnableGroup(g)
    \/ \E g \in InputGroupIds : DisableGroup(g)
    \/ \E g \in InputGroupIds : EnableFiltersGroup(g)
    \/ \E url \in {"", CustomUrl} : LoadCustomFilter(url)
    \/ \E id \in {0, CustomFilterId} : CustomFilterCallback(id)
    \/ GetFilters
    \/ GetGroups

Spec == Init /\ [][Next]_vars

----------------------------------------------------------------------------
\* The same operations with the calls of removeFilter and enableFiltersGroup
\* on record (cfg.history), under shorter id lists

InitHistory ==
    /\ cfg = [addLen |-> 1, disLen |-> 1, slots |-> {1},
              history |-> {"removeFilter", "enableFiltersGroup"}]
    /\ catalog = CatalogOfSpec
    /\ env = EnvOfSpec
    /\ InitDynamic

SpecHistory == InitHistory /\ [][Next]_vars

\* disableFilters with lists of up to MaxDisableLen ids, among the
\* operations that write the filters' flags or the state store's copy of
\* them (disableFilters reads and writes no group)
NextDisable ==
    \/ \E ids \in SeqsUpTo(FilterIds, cfg.addLen) : AddAndEnableFilters(ids)
    \/ \E l \in loads, success \in BOOLEAN : LoaderCallback(l, success)
    \/ \E ids \in SeqsUpTo(FilterIds, cfg.disLen) : DisableFilters(ids)
    \/ \E id \in FilterIds : RemoveFilter(id)
    \/ \E url \in {"", CustomUrl} : LoadCustomFilter(url)
    \/ \E id \in {0, CustomFilterId} : CustomFilterCallback(id)
    \/ GetFilters

InitDisable ==
    /\ cfg = [addLen |-> 1, disLen |-> MaxDisableLen, slots |-> {1},
              history |-> {"disableFilters"}]
    /\ catalog = CatalogOfSpec
    /\ env = EnvOfSpec
    /\ InitDynamic

SpecDisable == InitDisable /\ [][NextDisable]_vars

\* enableFilter called on its own
EnableFilter(filterId) ==
    /\ IF hasFilter(Cur, filterId)
       THEN LET S == enableFilter(Cur, filterId)
            IN /\ Commit(S)
               /\ trace' = Trace("enableFilter", filterId, S, "returned")
       ELSE /\ trace' = Trace("enableFilter", filterId, Cur, "threw")
            /\ UNCHANGED <<filters, groups, filtersStateInfo, groupsStateInfo>>
    /\ UNCHANGED <<staticVars, batches, loads, customLoads, seeded>>

NextUnit ==
    \/ Next
    \/ \E id \in FilterIds : EnableFilter(id)

InitUnit ==
    /\ cfg = [addLen |-> 1, disLen |-> 1, slots |-> {1}, history |-> {"enableFilter"}]
    /\ catalog = CatalogOfSpec
    /\ env = EnvOfSpec
    /\ InitDynamic

SpecUnit == InitUnit /\ [][NextUnit]_vars

\* The calls of addAndEnableFilters on record, with lists of up to
\* MaxBatchLen ids, among the operations that write the filters' flags
InitBatch ==
    /\ cfg = [addLen |-> MaxBatchLen, disLen |-> 1, slots |-> {1},
              history |-> {"addAndEnableFilters"}]
    /\ catalog = CatalogOfSpec
    /\ env = EnvOfSpec
    /\ InitDynamic

SpecBatch == InitBatch /\ [][NextDisable]_vars

\* One addAndEnableFilters batch at a time, on record from its call to its
\* last callback.  disableFilters, removeFilter and the custom filter
\* operations are called between batches, not while one waits for the
\* loader; the loader calls back for every load it is given.
NextRun ==
    \/ \E ids \in SeqsUpTo(FilterIds, cfg.addLen) : AddAndEnableFilters(ids)
    \/ \E l \in loads, success \in BOOLEAN : LoaderCallback(l, success)
    \/ loads = {} /\ \E ids \in SeqsUpTo(FilterIds, cfg.disLen) : DisableFilters(ids)
    \/ loads = {} /\ \E id \in FilterIds : RemoveFilter(id)
    \/ loads = {} /\ \E url \in {"", CustomUrl} : LoadCustomFilter(url)
    \/ loads = {} /\ \E id \in {0, CustomFilterId} : CustomFilterCallback(id)
    \/ GetFilters

InitRun ==
    /\ cfg = [addLen |-> MaxBatchLen, disLen |-> 1, slots |-> {1}, history |-> {"run"}]
    /\ catalog = CatalogOfSpec
    /\ env = EnvOfSpec
    /\ InitDynamic

SpecRun ==
    /\ InitRun
    /\ [][NextRun]_vars
    /\ WF_vars(\E l \in loads, success \in BOOLEAN : LoaderCallback(l, success))

\* Callers that start a batch while another batch waits for the loader
InitConcurrent ==
    /\ cfg = [addLen |-> 1, disLen |-> 1, slots |-> Slots, history |-> {}]
    /\ catalog = CatalogOfSpec
    /\ env = EnvOfSpec
    /\ InitDynamic

SpecConcurrent == InitConcurrent /\ [][Next]_vars

\* The calls of loadCustomFilter and the callbacks of updateCustomFilter on
\* record
InitCustom ==
    /\ cfg = [addLen |-> 1, disLen |-> 1, slots |-> {1},
              history |-> {"loadCustomFilter", "customFilterCallback"}]
    /\ catalog = CatalogOfSpec
    /\ env = EnvOfSpec
    /\ InitDynamic

SpecCustom == InitCustom /\ [][NextDisable]_vars

\* The calls of enableGroup and disableGroup on record
InitGroups ==
    /\ cfg = [addLen |-> 1, disLen |-> 1, slots |-> {1},
              history |-> {"enableGroup", "disableGroup"}]
    /\ catalog = CatalogOfSpec
    /\ env = EnvOfSpec
    /\ InitDynamic

SpecGroups == InitGroups /\ [][Next]_vars


----------------------------------------------------------------------------
\* The category selector over every catalog: the tags and languages of
\* filters 1 and 2, the locale's filters, the navigator and SAFARI_FILTER_ID
\* are drawn from all their values (0 is the id of no filter).

CatalogsOfSelect ==
    {[id \in FilterIds |->
        IF id = CustomFilterId THEN CatalogOfSpec[id]
        ELSE [groupId |-> 1, recommended |-> c[id].recommended, mobile |-> c[id].mobile,
              languages |-> c[id].languages, customUrl |-> FALSE]] :
     c \in [{1, 2} -> [recommended : BOOLEAN, mobile : BOOLEAN, languages : BOOLEAN]]}

InitSelect ==
    /\ cfg = [addLen |-> 0, disLen |-> 0, slots |-> {1},
              history |-> {"isOfferedFilter", "getRecommendedFilterIdsByGroupId"}]
    /\ catalog \in CatalogsOfSelect
    /\ env \in [langSuitable : SUBSET {1, 2},
                navigator : {"none", "desktop", "mobile"},
                safariFilterId : {0, 1, 2}]
    /\ InitDynamic

IsOfferedFilter(filterId) ==
    /\ hasFilter(Cur, filterId)
    /\ trace' = Trace("isOfferedFilter", filterId, Cur,
                      IF isOfferedFilter(filterId, env.langSuitable, env.safariFilterId)
                      THEN "true" ELSE "false")
    /\ UNCHANGED <<staticVars, filters, groups, filtersStateInfo, groupsStateInfo,
                   batches, loads, customLoads, seeded>>

GetRecommendedFilterIdsByGroupId(groupId) ==
    /\ trace' = [Trace("getRecommendedFilterIdsByGroupId", groupId, Cur, "returned")
                    EXCEPT !.ret = getRecommendedFilterIdsByGroupId(Cur, groupId)]
    /\ UNCHANGED <<staticVars, filters, groups, filtersStateInfo, groupsStateInfo,
                   batches, loads, customLoads, seeded>>

NextSelect ==
    \/ \E id \in FilterIds : IsOfferedFilter(id)
    \/ \E g \in InputGroupIds : GetRecommendedFilterIdsByGroupId(g)
    \/ \E url \in {"", CustomUrl} : LoadCustomFilter(url)
    \/ \E id \in {0, CustomFilterId} : CustomFilterCallback(id)
    \/ \E id \in FilterIds : RemoveFilter(id)

SpecSelect == InitSelect /\ [][NextSelect]_vars

----------------------------------------------------------------------------
\* Properties

LoadsOf(ls, b) == {l \in ls : l.b = b}

\* C1: during one addAndEnableFilters batch at most one loadFilterRules call
\* is outstanding at any time; a batch's next load is issued only in the
\* step in which the callback of its previous load fires, and when that
\* load succeeded its filter is installed and enabled by then.
C1_OneLoadPerBatch ==
    [][ /\ \A b \in Slots : Cardinality(LoadsOf(loads', b)) <= 1
        /\ \A n \in loads' \ loads :
              \/ Idle(n.b)
              \/ \E l \in loads \ loads' :
                    /\ l.b = n.b
                    /\ trace'.out \in {"success", "failure"}
                    /\ trace'.out = "success" =>
                          filters'[l.id].installed /\ filters'[l.id].enabled
      ]_vars

\* the callback of filter 1's load has fired with success, filter 1 is
\* enabled, and only then the load of filter 2, the batch's next id, is out
C1_Witness ==
    /\ loads = {[b |-> 1, id |-> 2]}
    /\ trace.out = "success"
    /\ trace.ld = <<2>>
    /\ filters[1].enabled

NeedsLoad(id) == hasFilter(Cur, id) /\ ~filters[id].installed /\ ~filters[id].loaded

\* C2: in addAndEnableFilters([x, y]) with x, y distinct existing filters,
\* neither installed nor loaded, the loader is invoked for x alone; when it
\* reports failure for x, x stays not enabled and not installed and the
\* batch goes on to y (y's load is issued, or y is enabled at once when it
\* needs no load); when it reports success, the filter becomes installed
\* and enabled.
C2_FailureDoesNotAbort ==
    [][ /\ \A l \in loads :
            /\ LoaderCallback(l, FALSE) =>
                  /\ filters'[l.id].enabled = filters[l.id].enabled
                  /\ filters'[l.id].installed = filters[l.id].installed
                  /\ (batches[l.b] # <<>> /\ hasFilter(Cur, Head(batches[l.b]))) =>
                        LET y == Head(batches[l.b])
                        IN IF NeedsLoad(y)
                           THEN /\ [b |-> l.b, id |-> y] \in loads'
                                /\ trace'.ld = <<y>>
                                /\ batches'[l.b] = Tail(batches[l.b])
                           ELSE filters'[y].installed /\ filters'[y].enabled
            /\ LoaderCallback(l, TRUE) =>
                  filters'[l.id].installed /\ filters'[l.id].enabled
        /\ \A x, y \in FilterIds :
              (x # y /\ NeedsLoad(x) /\ NeedsLoad(y) /\ AddAndEnableFilters(<<x, y>>)) =>
                  /\ trace'.ld = <<x>>
                  /\ loads' = loads \cup {[b |-> FreeSlot, id |-> x]}
                  /\ batches'[FreeSlot] = <<y>>
                  /\ ~filters'[x].enabled = ~filters[x].enabled
      ]_vars

\* the loader has reported failure for filter 1, which is left not
\* installed and not enabled, and the load of filter 2 has been issued
C2_Witness ==
    /\ trace.out = "failure"
    /\ trace.ld = <<2>>
    /\ loads = {[b |-> 1, id |-> 2]}
    /\ ~filters[1].enabled
    /\ ~filters[1].installed

InCategories(id) ==
    \/ Contains(getFiltersMetadata(Cur).filters, id)
    \/ \E g \in GroupIds : Contains(getFiltersMetadata(Cur).categories[g], id)
    \/ \E g \in InputGroupIds : Contains(getRecommendedFilterIdsByGroupId(Cur, g), id)

\* C8 (as amended): a filter with removed = true is in neither the filters
\* nor any category of getFiltersMetadata() and in no
\* getRecommendedFilterIdsByGroupId(g); the manager's getFilters() returns
\* the whole catalog, removed filters included.
C8_RemovedNotListed ==
    \A id \in FilterIds : filters[id].removed => ~InCategories(id)

\* C8 (as claimed): a removed filter is in no listing, the list returned by
\* the manager's getFilters() included.
C8_RemovedNowhere ==
    \A id \in FilterIds :
        filters[id].removed =>
            /\ ~InCategories(id)
            /\ ~Contains(managerGetFiltersResult(managerGetFilters(Cur)), id)

\* the custom filter, which carries the recommended tag, has been removed
C8_Witness ==
    /\ filters[CustomFilterId].present
    /\ filters[CustomFilterId].removed
    /\ catalog[CustomFilterId].recommended

Count(ev, kind, id) == Cardinality({i \in 1..Len(ev) : ev[i] = Event(kind, id)})

CoreUnchanged == UNCHANGED <<filters, groups, filtersStateInfo, groupsStateInfo>>

\* C3: enableFilter(id) on an existing filter emits one
\* FILTER_ENABLE_DISABLE event when the state store does not hold the filter
\* as enabled and none when it does, and leaves the filter enabled; called
\* again right after, it changes no flag and emits nothing, so the two
\* calls emit at most one event, and exactly one when the first call found
\* the filter not enabled.
C3_EnableFilterTwice ==
    [][ \A id \in FilterIds :
          (hasFilter(Cur, id) /\ EnableFilter(id)) =>
              /\ Count(trace'.ev, FILTER_ENABLE_DISABLE, id)
                    = IF isFilterEnabled(Cur, id) THEN 0 ELSE 1
              /\ filters'[id].enabled
              /\ filtersStateInfo'[id].has /\ filtersStateInfo'[id].enabled
              /\ (trace.op = "enableFilter" /\ trace.arg = id /\ trace.out = "returned") =>
                    /\ trace'.ev = <<>>
                    /\ CoreUnchanged
                    /\ Count(trace.ev, FILTER_ENABLE_DISABLE, id) <= 1
      ]_vars

\* enableFilter(1) has been called twice in a row; filter 1 is enabled and
\* the second call has emitted nothing
C3_Witness ==
    /\ trace.op = "enableFilter"
    /\ trace.arg = 1
    /\ trace.rep
    /\ trace.out = "returned"
    /\ trace.ev = <<>>
    /\ filters[1].enabled

\* The ids of a list that disableFilters reaches: those before the first
\* id that is not enabled
NotEnabledAt(ids) == {i \in 1..Len(ids) : ~isFilterEnabled(Cur, ids[i])}
StopIndex(ids) ==
    IF NotEnabledAt(ids) = {} THEN Len(ids) + 1
    ELSE CHOOSE i \in NotEnabledAt(ids) : \A j \in NotEnabledAt(ids) : i <= j
Before(ids) == {ids[i] : i \in 1..(StopIndex(ids) - 1)}
FirstAt(ids, id) == CHOOSE i \in 1..Len(ids) : ids[i] = id /\ \A j \in 1..(i - 1) : ids[j] # id

\* C4: in every reachable state and for every id list, disableFilters(ids)
\* sets enabled = false on each id before the first id that is not enabled,
\* with one FILTER_ENABLE_DISABLE event each, in input order, and leaves
\* that id, every id after it and every other filter as they were, with no
\* event for them.
C4_DisableStopsAtFirstNotEnabled ==
    \A ids \in SeqsUpTo(FilterIds, MaxDisableLen) :
        LET S == disableFilters(Cur, ids)
        IN /\ \A id \in Before(ids) :
                 /\ S.f[id] = [filters[id] EXCEPT !.enabled = FALSE]
                 /\ Count(S.ev, FILTER_ENABLE_DISABLE, id) = 1
           /\ Len(S.ev) = Cardinality(Before(ids))
           /\ \A i, j \in 1..Len(S.ev) :
                 i < j => FirstAt(ids, S.ev[i].id) < FirstAt(ids, S.ev[j].id)
           /\ \A id \in FilterIds \ Before(ids) : S.f[id] = filters[id]
           /\ S.g = groups

\* disableFilters was called with the three filters: filter 1 was enabled
\* and is now disabled with the only event, filter 2 was not enabled, and
\* filter 3 is still enabled
C4_Witness ==
    /\ trace.op = "disableFilters"
    /\ trace.arg = 3
    /\ trace.ev = <<Event(FILTER_ENABLE_DISABLE, 1)>>
    /\ ~filters[1].enabled
    /\ ~filters[2].enabled
    /\ filters[3].enabled

\* C5: removeFilter(id) on a filter that is absent, already removed or has
\* no customUrl changes no flag of any filter, no group and no store entry,
\* and emits no event.
C5_RemoveRejected ==
    [][ \A id \in FilterIds :
          (RemoveFilter(id) /\ (~hasFilter(Cur, id) \/ filters[id].removed
                                  \/ ~catalog[id].customUrl)) =>
              /\ CoreUnchanged
              /\ trace'.ev = <<>>
      ]_vars

\* removeFilter(1) has been called on the enabled filter 1, which has no
\* customUrl: it is still installed and enabled and nothing was emitted
C5_Witness ==
    /\ trace.op = "removeFilter"
    /\ trace.arg = 1
    /\ trace.ev = <<>>
    /\ filters[1].enabled
    /\ filters[1].installed
    /\ ~filters[1].removed

Recommended(g) == getRecommendedFilterIdsByGroupId(Cur, g)

\* C6 (as amended): recommended filters of a group are seeded at most
\* once.  enableFiltersGroup(g) on an existing group starts the add-and-
\* enable of the recommended ids exactly when it finds g never toggled
\* (enabled undefined), and always leaves g.enabled = true; once
\* enableFiltersGroup(g) has been called, no later call, disableGroup(g) in
\* between or not, makes a loader or add call.  A group toggled before its
\* first enableFiltersGroup call (by enableGroup, or by enabling one of its
\* filters) is never seeded.
C6_SeededAtMostOnce ==
    [][ \A g \in GroupIds :
          EnableFiltersGroup(g) =>
              /\ groups'[g] = "true"
              /\ IF groups[g] = "undefined"
                 THEN /\ g \notin seeded
                      /\ Recommended(g) # <<>> =>
                            /\ trace'.add # <<>>
                            /\ Head(trace'.add) = Head(Recommended(g))
                 ELSE trace'.add = <<>> /\ trace'.ld = <<>>
              /\ g \in seeded => (trace'.add = <<>> /\ trace'.ld = <<>>)
      ]_vars

\* C6 (as claimed): the first enableFiltersGroup(g) call for an existing
\* group seeds its recommended filters and sets g.enabled = true, and no
\* later call makes a loader or add call.
C6_FirstCallSeeds ==
    [][ \A g \in GroupIds :
          EnableFiltersGroup(g) =>
              IF g \notin seeded
              THEN /\ groups'[g] = "true"
                   /\ Recommended(g) # <<>> => trace'.add # <<>>
              ELSE trace'.add = <<>> /\ trace'.ld = <<>>
      ]_vars

\* enableFiltersGroup(1) has been called on the seeded group 1 after it was
\* disabled: the call enabled the group and made no add or loader call
C6_Witness ==
    /\ trace.op = "enableFiltersGroup"
    /\ trace.arg = 1
    /\ 1 \in seeded
    /\ trace.ev = <<Event(FILTER_GROUP_ENABLE_DISABLE, 1)>>
    /\ trace.add = <<>>
    /\ trace.ld = <<>>
    /\ groups[1] = "true"
    /\ \E id \in FilterIds : catalog[id].groupId = 1 /\ filters[id].installed

\* C7 (as amended): when enableFiltersGroup(g) is called twice in a row on
\* an existing group, the second call emits no event (the group is already
\* enabled, so enableGroup returns early), makes no add or loader call and
\* changes nothing.
C7_SecondCallSilent ==
    [][ \A g \in GroupIds :
          (EnableFiltersGroup(g) /\ trace.op = "enableFiltersGroup" /\ trace.arg = g) =>
              /\ trace'.ev = <<>>
              /\ trace'.add = <<>>
              /\ trace'.ld = <<>>
              /\ CoreUnchanged
              /\ UNCHANGED <<batches, loads>>
      ]_vars

\* C7 (as claimed): the second of two enableFiltersGroup(g) calls in a row
\* emits one FILTER_GROUP_ENABLE_DISABLE event for g and does nothing else.
C7_SecondCallReemits ==
    [][ \A g \in GroupIds :
          (EnableFiltersGroup(g) /\ trace.op = "enableFiltersGroup" /\ trace.arg = g) =>
              /\ trace'.ev = <<Event(FILTER_GROUP_ENABLE_DISABLE, g)>>
              /\ trace'.add = <<>>
              /\ trace'.ld = <<>>
      ]_vars

\* enableFiltersGroup(1) has been called twice in a row: the first call's
\* load of filter 1 is still out, and the second call emitted nothing
C7_Witness ==
    /\ trace.op = "enableFiltersGroup"
    /\ trace.arg = 1
    /\ trace.rep
    /\ trace.ev = <<>>
    /\ groups[1] = "true"
    /\ loads = {[b |-> 1, id |-> 1]}

\* The value the claim gives isOfferedFilter(f, L, P)
Offered(f, L, P) ==
    \/ f = P
    \/ /\ catalog[f].recommended
       /\ (~catalog[f].languages \/ f \in L)
       /\ (~catalog[f].mobile \/ env.navigator = "mobile")

\* C9: isOfferedFilter(f, L, P) is true exactly when f.filterId = P, or f
\* has the recommended tag and (f.languages is empty or f.filterId is in L)
\* and (f is not mobile-tagged or the runtime is a mobile device).
C9_IsOfferedFilter ==
    trace.op = "isOfferedFilter" =>
        (trace.out = "true") = Offered(trace.arg, env.langSuitable, env.safariFilterId)

\* isOfferedFilter returned true for the Safari filter, which has no
\* recommended tag, is mobile-tagged off a mobile device, and has languages
\* that do not suit the locale
C9_Witness ==
    /\ trace.op = "isOfferedFilter"
    /\ trace.arg = env.safariFilterId
    /\ trace.out = "true"
    /\ ~catalog[trace.arg].recommended
    /\ catalog[trace.arg].mobile
    /\ env.navigator # "mobile"
    /\ catalog[trace.arg].languages
    /\ trace.arg \notin env.langSuitable

\* C10 (as amended): a filter with no recommended tag is never returned by
\* getRecommendedFilterIdsByGroupId(g), unless its id is SAFARI_FILTER_ID:
\* the Safari filter is returned for its group whatever its tags.
C10_RecommendedOrSafari ==
    trace.op = "getRecommendedFilterIdsByGroupId" =>
        \A i \in 1..Len(trace.ret) :
            catalog[trace.ret[i]].recommended \/ trace.ret[i] = env.safariFilterId

\* C10 (as claimed): a filter with no recommended tag is never returned by
\* getRecommendedFilterIdsByGroupId(g).
C10_OnlyRecommended ==
    trace.op = "getRecommendedFilterIdsByGroupId" =>
        \A i \in 1..Len(trace.ret) : catalog[trace.ret[i]].recommended

\* getRecommendedFilterIdsByGroupId(1) returned filter 1 and left out
\* filter 2, which has no recommended tag and is not the Safari filter
C10_Witness ==
    /\ trace.op = "getRecommendedFilterIdsByGroupId"
    /\ trace.arg = 1
    /\ trace.ret = <<1>>
    /\ ~catalog[2].recommended
    /\ env.safariFilterId # 2
    /\ ~catalog[2].languages
    /\ ~catalog[2].mobile

\* C11 (as amended): addAndEnableFilters(ids) with an id that is absent from
\* the catalog goes through the ids before it as usual; when it reaches the
\* missing id, in the call itself or in a loader callback, getFilterById
\* throws: no flag changes, nothing is emitted, no load is issued, and the
\* rest of the batch is dropped, so no later id is loaded or enabled by it.
C11_MissingIdAborts ==
    [][ /\ \A x, y \in FilterIds :
              (x # y /\ ~hasFilter(Cur, x) /\ AddAndEnableFilters(<<x, y>>)) =>
                  /\ trace'.out = "threw"
                  /\ trace'.ld = <<>>
                  /\ CoreUnchanged
                  /\ UNCHANGED <<batches, loads>>
        /\ \A l \in loads, success \in BOOLEAN :
              (/\ batches[l.b] # <<>>
               /\ ~hasFilter(Cur, Head(batches[l.b]))
               /\ LoaderCallback(l, success)) =>
                  /\ trace'.out = "threw"
                  /\ trace'.ld = <<>>
                  /\ batches'[l.b] = <<>>
                  /\ loads' = loads \ {l}
                  /\ \A id \in FilterIds \ {l.id} : filters'[id] = filters[id]
      ]_vars

\* C11 (as claimed): addAndEnableFilters([x, y]) with x absent from the
\* catalog and y in it raises no error, and y is loaded or enabled.
C11_MissingIdSkipped ==
    [][ \A x, y \in FilterIds :
          (x # y /\ ~hasFilter(Cur, x) /\ hasFilter(Cur, y)
             /\ AddAndEnableFilters(<<x, y>>)) =>
              /\ trace'.out = "returned"
              /\ \/ Contains(trace'.ld, y)
                 \/ filters'[y].installed /\ filters'[y].enabled
      ]_vars

\* addAndEnableFilters was called with two ids, the missing id 3 first: it
\* threw at 3, and neither filter 1 nor filter 2 was loaded or enabled
C11_Witness ==
    /\ trace.op = "addAndEnableFilters"
    /\ trace.arg = 2
    /\ trace.out = "threw"
    /\ trace.add = <<3>>
    /\ ~filters[3].present
    /\ loads = {}
    /\ \A id \in {1, 2} : ~filters[id].installed /\ ~filters[id].enabled

GroupEvent(g) == <<Event(FILTER_GROUP_ENABLE_DISABLE, g)>>

OthersUnchanged(g) ==
    /\ UNCHANGED <<filters, filtersStateInfo>>
    /\ \A h \in GroupIds \ {g} :
          groups'[h] = groups[h] /\ groupsStateInfo'[h] = groupsStateInfo[h]

\* C12 (as amended): enableGroup(id) is a no-op (no flag change, no event)
\* when the group is absent or enabled; on a disabled or never-toggled
\* group it sets enabled = true and emits one FILTER_GROUP_ENABLE_DISABLE
\* event.  disableGroup(id) is a no-op when the group is absent, disabled
\* or never toggled (a never-toggled group stays never toggled); on an
\* enabled group it sets enabled = false and emits one such event.
C12_GroupToggle ==
    [][ \A g \in InputGroupIds :
          /\ EnableGroup(g) =>
                IF g \in GroupIds /\ groups[g] # "true"
                THEN /\ groups'[g] = "true"
                     /\ trace'.ev = GroupEvent(g)
                     /\ OthersUnchanged(g)
                ELSE CoreUnchanged /\ trace'.ev = <<>>
          /\ DisableGroup(g) =>
                IF g \in GroupIds /\ groups[g] = "true"
                THEN /\ groups'[g] = "false"
                     /\ trace'.ev = GroupEvent(g)
                     /\ OthersUnchanged(g)
                ELSE CoreUnchanged /\ trace'.ev = <<>>
      ]_vars

\* C12 (as claimed): enableGroup(id) and disableGroup(id) are no-ops when
\* the group is absent or already in the target state; in every other case,
\* the never-toggled state included, they set enabled to the target value
\* and emit one FILTER_GROUP_ENABLE_DISABLE event.
C12_ToggleUnlessInTarget ==
    [][ \A g \in InputGroupIds :
          /\ EnableGroup(g) =>
                IF g \in GroupIds /\ groups[g] # "true"
                THEN groups'[g] = "true" /\ trace'.ev = GroupEvent(g)
                ELSE CoreUnchanged /\ trace'.ev = <<>>
          /\ DisableGroup(g) =>
                IF g \in GroupIds /\ groups[g] # "false"
                THEN groups'[g] = "false" /\ trace'.ev = GroupEvent(g)
                ELSE CoreUnchanged /\ trace'.ev = <<>>
      ]_vars

\* disableGroup(1) has been called on the never-toggled group 1: nothing
\* was emitted and the group is still never toggled
C12_Witness ==
    /\ trace.op = "disableGroup"
    /\ trace.arg = 1
    /\ trace.ev = <<>>
    /\ groups[1] = "undefined"
    /\ ~groupsStateInfo[1].has

\* C13: loadCustomFilter with a falsy url calls onError in the call itself,
\* does not call onSuccess, and does not invoke updateCustomFilter: no
\* registration is left waiting for a callback and no flag of any filter or
\* group changes.
C13_NoUrlRejected ==
    [][ LoadCustomFilter("") =>
          /\ trace'.out = "error"
          /\ customLoads' = customLoads
          /\ CoreUnchanged
          /\ UNCHANGED <<batches, loads>>
      ]_vars

\* loadCustomFilter was called without a url: onError was called, no
\* registration is waiting, and the custom filter is not in the catalog
C13_Witness ==
    /\ trace.op = "loadCustomFilter"
    /\ trace.out = "error"
    /\ customLoads = 0
    /\ ~filters[CustomFilterId].present

\* C14: enableFilter(id) on an existing filter that the state store does not
\* hold as enabled leaves the filter enabled and emits one
\* FILTER_ENABLE_DISABLE event for it; it enables the filter's group, with
\* one FILTER_GROUP_ENABLE_DISABLE event ahead of the filter's, exactly when
\* the group has never been toggled; a disabled group stays disabled, an
\* enabled one enabled, with no group event.
C14_ImplicitGroupEnable ==
    [][ \A id \in FilterIds :
          (hasFilter(Cur, id) /\ ~isFilterEnabled(Cur, id) /\ EnableFilter(id)) =>
              LET g == catalog[id].groupId
              IN /\ filters'[id].enabled
                 /\ Count(trace'.ev, FILTER_ENABLE_DISABLE, id) = 1
                 /\ IF groups[g] = "undefined"
                    THEN /\ groups'[g] = "true"
                         /\ trace'.ev = GroupEvent(g) \o <<Event(FILTER_ENABLE_DISABLE, id)>>
                    ELSE /\ groups' = groups
                         /\ groupsStateInfo' = groupsStateInfo
                         /\ trace'.ev = <<Event(FILTER_ENABLE_DISABLE, id)>>
      ]_vars

\* enableFilter(1) has enabled filter 1 in the disabled group 1: the group
\* is still disabled and the only event is the filter's
C14_Witness ==
    /\ trace.op = "enableFilter"
    /\ trace.arg = 1
    /\ trace.ev = <<Event(FILTER_ENABLE_DISABLE, 1)>>
    /\ filters[1].enabled
    /\ groups[1] = "false"

FirstGroupEvent(ev, g) ==
    CHOOSE i \in 1..Len(ev) :
        /\ ev[i] = Event(FILTER_GROUP_ENABLE_DISABLE, g)
        /\ \A j \in 1..(i - 1) : ev[j] # ev[i]

\* C15 (as amended): enableFiltersGroup(g) on a never-toggled group starts
\* the seeding and enables the group in the same call, without waiting for
\* the loader: when the call returns g.enabled is true and its one
\* FILTER_GROUP_ENABLE_DISABLE event has been emitted, ahead of every
\* FILTER_ENABLE_DISABLE event of the call, while the load the call handed
\* to the loader is still out and its filter not yet installed.
C15_GroupEnabledInCall ==
    [][ \A g \in GroupIds :
          (groups[g] = "undefined" /\ EnableFiltersGroup(g)) =>
              /\ groups'[g] = "true"
              /\ Count(trace'.ev, FILTER_GROUP_ENABLE_DISABLE, g) = 1
              /\ \A j \in 1..(FirstGroupEvent(trace'.ev, g) - 1) :
                    trace'.ev[j].kind # FILTER_ENABLE_DISABLE
              /\ Len(trace'.ld) <= 1
              /\ \A i \in 1..Len(trace'.ld) :
                    /\ [b |-> FreeSlot, id |-> trace'.ld[i]] \in loads'
                    /\ ~filters'[trace'.ld[i]].installed
      ]_vars

\* C15 (as claimed): when the first enableFiltersGroup(g) has enabled g, no
\* seeded filter's load is still out, every filter the call reached is
\* installed and enabled, and the group's event is the last of the call.
C15_GroupEnabledLast ==
    [][ \A g \in GroupIds :
          (groups[g] = "undefined" /\ EnableFiltersGroup(g) /\ groups'[g] = "true") =>
              /\ trace'.ld = <<>>
              /\ \A i \in 1..Len(trace'.add) :
                    filters'[trace'.add[i]].installed /\ filters'[trace'.add[i]].enabled
              /\ trace'.ev # <<>> =>
                    trace'.ev[Len(trace'.ev)] = Event(FILTER_GROUP_ENABLE_DISABLE, g)
      ]_vars

\* the first enableFiltersGroup(1) has returned: group 1 is enabled and its
\* event emitted, while the load of its recommended filter 1 is still out
C15_Witness ==
    /\ trace.op = "enableFiltersGroup"
    /\ trace.arg = 1
    /\ ~trace.rep
    /\ trace.ev = GroupEvent(1)
    /\ trace.add = <<1>>
    /\ trace.ld = <<1>>
    /\ groups[1] = "true"
    /\ loads = {[b |-> 1, id |-> 1]}
    /\ ~filters[1].installed /\ ~filters[1].enabled

\* C16: at most one loadFilterRules call is waiting for its callback at any
\* time, over all batches; in particular no filter has two loads out.
C16_OneLoadGlobally ==
    /\ Cardinality(loads) <= 1
    /\ \A l, m \in loads : l.id = m.id => l = m

\* C17: removeFilter(id) on an existing custom filter that is not removed
\* leaves it with enabled = false, installed = false and removed = true,
\* emits one FILTER_ENABLE_DISABLE and then one FILTER_ADD_REMOVE event for
\* it and nothing else, and changes no other filter, no group and no load.
C17_RemoveCustom ==
    [][ \A id \in FilterIds :
          (/\ hasFilter(Cur, id)
           /\ ~filters[id].removed
           /\ catalog[id].customUrl
           /\ RemoveFilter(id)) =>
              /\ filters'[id] = [filters[id] EXCEPT !.enabled = FALSE,
                                                    !.installed = FALSE,
                                                    !.removed = TRUE]
              /\ trace'.ev = <<Event(FILTER_ENABLE_DISABLE, id),
                               Event(FILTER_ADD_REMOVE, id)>>
              /\ \A o \in FilterIds \ {id} :
                    filters'[o] = filters[o] /\ filtersStateInfo'[o] = filtersStateInfo[o]
              /\ UNCHANGED <<groups, groupsStateInfo, batches, loads>>
      ]_vars

\* removeFilter(3) has removed the custom filter, which had been loaded and
\* installed: it is now removed, not installed and not enabled, after the
\* two events
C17_Witness ==
    /\ trace.op = "removeFilter"
    /\ trace.arg = CustomFilterId
    /\ trace.ev = <<Event(FILTER_ENABLE_DISABLE, CustomFilterId),
                    Event(FILTER_ADD_REMOVE, CustomFilterId)>>
    /\ filters[CustomFilterId].loaded
    /\ filters[CustomFilterId].removed
    /\ ~filters[CustomFilterId].installed
    /\ ~filters[CustomFilterId].enabled

\* the working state after the step
CurNext == [f |-> filters', g |-> groups', fs |-> filtersStateInfo',
            gs |-> groupsStateInfo', ev |-> <<>>, ld |-> <<>>, add |-> <<>>]

\* C18: when updateCustomFilter calls back with the custom filter's id,
\* removed before or not, the filter's removed flag is cleared, onSuccess is
\* called (once: the registration is no longer waiting) and onError is not,
\* and the filter is in getFiltersMetadata(), in the filters and in its
\* group's category; when it calls back with no id, onError is called,
\* onSuccess is not, and no flag changes.
C18_ReAddRoundTrip ==
    [][ /\ CustomFilterCallback(CustomFilterId) =>
              /\ trace'.out = "success"
              /\ customLoads' = customLoads - 1
              /\ filters'[CustomFilterId] =
                    [filters[CustomFilterId] EXCEPT !.present = TRUE, !.removed = FALSE]
              /\ Contains(getFiltersMetadata(CurNext).filters, CustomFilterId)
              /\ Contains(getFiltersMetadata(CurNext).categories[
                              catalog[CustomFilterId].groupId], CustomFilterId)
        /\ CustomFilterCallback(0) =>
              /\ trace'.out = "error"
              /\ customLoads' = customLoads - 1
              /\ filters' = filters
      ]_vars

\* updateCustomFilter has called back with the custom filter's id after the
\* filter had been removed (the state store holds flags for it though it
\* was never loaded, so the event that stored them was removeFilter's): the
\* filter is no longer removed and is listed again
C18_Witness ==
    /\ trace.op = "customFilterCallback"
    /\ trace.arg = CustomFilterId
    /\ trace.out = "success"
    /\ filtersStateInfo[CustomFilterId].has
    /\ ~filters[CustomFilterId].loaded
    /\ ~filters[CustomFilterId].removed
    /\ Contains(getFiltersMetadata(Cur).filters, CustomFilterId)

\* C19: in every reachable state a filter with removed = true is neither
\* enabled nor installed.
C19_RemovedIsOff ==
    \A id \in FilterIds :
        (filters[id].present /\ filters[id].removed) =>
            ~filters[id].enabled /\ ~filters[id].installed

NoDuplicates(s) == \A i, j \in 1..Len(s) : i # j => s[i] # s[j]

\* a batch that went through all its ids has passed each distinct id once
\* to addAntiBannerFilter, has handed to the loader, once each, exactly the
\* ids it found neither installed nor loaded, and leaves installed and
\* enabled every id whose load succeeded or that it found installed or
\* loaded
RunFinal ==
    (trace.run.on /\ trace.run.done /\ ~trace.run.threw) =>
        /\ batches[1] = <<>> /\ loads = {}
        /\ Len(trace.run.visited) = trace.run.n
        /\ NoDuplicates(trace.run.visited)
        /\ NoDuplicates(trace.run.loaded)
        /\ Range(trace.run.loaded) \cap trace.run.had = {}
        /\ Range(trace.run.loaded) \cup trace.run.had = Range(trace.run.visited)
        /\ trace.run.ok \subseteq Range(trace.run.loaded)
        /\ \A id \in trace.run.ok \cup trace.run.had :
              filters[id].installed /\ filters[id].enabled

\* while the batch runs exactly its last load is out
RunWaiting ==
    RunInProgress =>
        /\ trace.run.loaded # <<>>
        /\ loads = {[b |-> 1, id |-> trace.run.loaded[Len(trace.run.loaded)]]}

\* in every state, a call and a callback that do not throw pass to
\* addAntiBannerFilter, in order, the ids at the head of the distinct ids of
\* the call (for a callback: of the ids still queued) and leave the others
\* queued
RunInOrder ==
    /\ ~RunInProgress =>
          \A ids \in SeqsUpTo(FilterIds, MaxBatchLen) :
              LET r == addAndEnableFilters(Cur, ids)
              IN ~r.threw => r.s.add \o r.q = removeDuplicates(ids)
    /\ \A l \in loads, success \in BOOLEAN :
          LET S0 == [Cur EXCEPT !.f[l.id].loaded = @ \/ success]
              r == onFilterLoaded(S0, l.id, success, batches[l.b])
          IN ~r.threw => r.s.add \o r.q = batches[l.b]

====
